---------------------------- MODULE Spec2Model ----------------------------
(***************************************************************************)
(* Model of the azurerm container group and container service resources:  *)
(*   src/azurerm/resource_arm_container_group.go                           *)
(*   src/azurerm/resource_arm_container_service.go                         *)
(*                                                                         *)
(* Spec         the Create/Read/Update/Delete handlers of both resources   *)
(*              against a remote management API whose answers are chosen   *)
(*              nondeterministically, with the container service's wait    *)
(*              for its provisioning state.                                *)
(* SpecExpand   expandContainerGroupContainers on every document of a      *)
(*              bounded set, run twice, and                                *)
(*              flattenContainerGroupContainers on its result.             *)
(* SpecVolumes  flattenContainerVolumes on every remote object and local   *)
(*              configuration of a bounded set.                            *)
(* SpecRead     the document a container group Read leaves, for every      *)
(*              remote object and local document of a bounded set, read    *)
(*              twice.                                                     *)
(***************************************************************************)
EXTENDS Integers, Sequences, FiniteSets, TLC

VARIABLES
    kind,       \* which resource this behaviour is about: "group" or "service"
    remote,     \* the remote object: [exists, state]
    id,         \* d.Id(): "" when unset
    pc,         \* "idle", or "wait" inside the container service's WaitForState
    ret,        \* what the last handler invocation did and returned
    waitState,  \* state of the wait: None, Pending, Succeeded, Failed, TimedOut, RefreshError
    now,        \* time elapsed since the wait began
    nextPoll,   \* earliest time of the next refresh
    observed,   \* provisioning-state labels the refreshes of this wait returned
    waitEnd,    \* the time at which the wait left Pending, -1 before
    returned,   \* <<wait outcome, error type>> pairs CreateUpdate has returned so far
    lastPoll,   \* the last Get the refresh function of this wait issued
    serviceDoc, \* the document d of the last CreateUpdate of the container service, nil before
    remoteProps, \* Properties of the remote container service, nil when it has none
    canonical,  \* what the last successful Read of the container service set in d, nil before
    \* Expand and Flatten of the container group's "container" list
    stage,      \* "input", "expanded", "expandedTwice", "flattened"
    doc,        \* d.Get("container"): the list of container configurations
    req,        \* what expandContainerGroupContainers returned
    req2,       \* what a second run of it on the same document returned
    flat,       \* what flattenContainerGroupContainers returned for req
    \* flattenContainerVolumes on its own
    volumeMounts,            \* the container's volume mounts
    containerGroupVolumes,   \* the group-level volumes
    containerVolumesConfig,  \* the container's volumes in the local document
    volumeConfigs,           \* the "volume" list flattened for the container, nil when not set
    \* two Reads of the container group against one remote object
    remoteGroup, \* the container group the remote API returns
    prior,      \* the local document d at the first Read
    prior2,     \* the local document d at the second Read
    read1,      \* the document the first Read leaves in d
    read2       \* the document the second Read leaves in d

serviceVars == <<serviceDoc, remoteProps, canonical>>

handlerVars ==
    <<kind, remote, id, pc, ret, waitState, now, nextPoll, observed, waitEnd, returned,
      lastPoll, serviceVars>>

expandVars == <<doc, req, req2, flat>>

volumeVars == <<volumeMounts, containerGroupVolumes, containerVolumesConfig, volumeConfigs>>

readVars == <<remoteGroup, prior, prior2, read1, read2>>

vars == <<handlerVars, stage, expandVars, volumeVars, readVars>>

-----------------------------------------------------------------------------
(* Bounds and program constants *)

\* the caller-supplied timeout d.Timeout(...) of the wait, in seconds
WaitTimeout == 40

\* MinTimeout: 15 * time.Second
MinTimeout == 15

Kinds == {"group", "service"}

\* provisioning-state labels of the remote container service
Labels == {"Creating", "Updating", "Succeeded", "Failed"}

\* the resource ID the remote API assigns
RemoteID == "id"

-----------------------------------------------------------------------------
(* Go values *)

\* a pointer: nil, or the address of a value
NilPtr == <<>>
Ptr(x) == <<x>>
IsNil(p) == Len(p) = 0
Deref(p) == p[1]

\* a map[string]interface{}: a function on the keys it holds
EmptyMap == [k \in {} |-> ""]
HasKey(m, k) == k \in DOMAIN m

\* strings are sequences of characters where they are split and joined
RECURSIVE Split(_, _)
\* strings.Split(s, sep) for a separator of one character
Split(s, sep) ==
    IF \A i \in 1..Len(s) : s[i] # sep
    THEN <<s>>
    ELSE LET i == CHOOSE k \in 1..Len(s) :
                    s[k] = sep /\ \A j \in 1..(k - 1) : s[j] # sep
         IN  <<SubSeq(s, 1, i - 1)>> \o Split(SubSeq(s, i + 1, Len(s)), sep)

RECURSIVE Join(_, _)
\* strings.Join(parts, sep)
Join(parts, sep) ==
    IF Len(parts) = 0 THEN <<>>
    ELSE IF Len(parts) = 1 THEN parts[1]
    ELSE parts[1] \o <<sep>> \o Join(Tail(parts), sep)

\* strings.ToUpper on the protocol names
ToUpper(str) ==
    CASE str = "tcp" -> "TCP"
      [] str = "udp" -> "UDP"
      [] OTHER -> str

RECURSIVE Concat(_)
\* the slices of a sequence appended one after the other
Concat(ss) == IF Len(ss) = 0 THEN <<>> ELSE Head(ss) \o Concat(Tail(ss))

Max(S) == CHOOSE m \in S : \A n \in S : n <= m

\* the orders in which a range over a map with these keys can visit them
Orders(keys) ==
    {o \in [1..Cardinality(keys) -> keys] : \A i, j \in DOMAIN o : i # j => o[i] # o[j]}

-----------------------------------------------------------------------------
(* Errors: a Go error value is its dynamic type and its message *)

Nil == [type |-> "nil", text |-> <<>>]

\* an error of the SDK client, returned to the caller as it is
SdkError(what) == [type |-> "sdk", text |-> <<what>>]

\* fmt.Errorf: always a plain *errors.errorString; %s and %+v of an error
\* argument keep its message and drop its type
Errorf(msg, args) == [type |-> "errorString", text |-> <<msg>> \o args]

\* tf.ImportAsExistsError(resourceName, id)
ImportAsExistsError(resourceName) ==
    Errorf("already exists - needs to be imported", <<resourceName, RemoteID>>)

-----------------------------------------------------------------------------
(* The remote management API (the SDK client), as the handlers see it *)

Absent == [exists |-> FALSE, state |-> "none"]

\* client.Get: "ok" an object with its ID, "noid" an object without an ID,
\* "notfound" a 404 error, "err" any other error
GetResponses(rem) ==
    IF rem.exists THEN {"ok", "noid", "err"} ELSE {"notfound", "err"}

\* client.CreateOrUpdate: accepted or rejected
CreateOrUpdateResponses == {"ok", "err"}

\* client.Delete: "ok" accepted, "notfound" a 404 error, "err" any other error
DeleteResponses(rem) ==
    IF rem.exists THEN {"ok", "err"} ELSE {"ok", "notfound", "err"}

\* the remote object after an accepted CreateOrUpdate
AfterCreateOrUpdate(rem) ==
    [exists |-> TRUE, state |-> IF rem.exists THEN "Updating" ELSE "Creating"]

-----------------------------------------------------------------------------
(* What a handler invocation did: the record kept in ret *)

NoRet ==
    [op |-> "none", err |-> Nil, idBefore |-> "",
     panic |-> FALSE,         \* the invocation ended in a run-time panic
     existsResp |-> "none",   \* answer of the initial existence Get
     cou |-> 0,               \* CreateOrUpdate calls issued
     couResp |-> "none",      \* answer of the CreateOrUpdate call
     reread |-> "none",       \* answer of the Get after CreateOrUpdate
     readResp |-> "none",     \* answer of the Get in Read
     del |-> 0,               \* Delete calls issued
     delResp |-> "none"]      \* answer of the Delete call

Started(op) == [NoRet EXCEPT !.op = op, !.idBefore = id]


-----------------------------------------------------------------------------
(* Container group: resource_arm_container_group.go *)

\* mutant: the check for an existing object's ID is left out
groupExistenceCheckAdopts(resp) ==
    CASE resp = "err" ->
            Errorf("Error checking for the existence of Container Group", <<"api error">>)
      [] OTHER -> Nil

\* Create, lines 244-254: the existence check before anything is sent
groupExistenceCheck(resp) ==
    CASE resp = "err" ->
            Errorf("Error checking for the existence of Container Group", <<"api error">>)
      [] resp = "ok" -> ImportAsExistsError("azurerm_container_group")
      [] OTHER -> Nil

\* mutant: "not found" is returned like any other error
groupReadOutcomeNoNotFound(resp, curId) ==
    CASE resp \in {"notfound", "err"} -> [id |-> curId, err |-> SdkError("Get")]
      [] OTHER -> [id |-> curId, err |-> Nil]

\* Read, lines 319-357: the identifier and the error Read leaves behind
groupReadOutcome(resp, curId) ==
    CASE resp = "notfound" -> [id |-> "", err |-> Nil]
      [] resp = "err" -> [id |-> curId, err |-> SdkError("Get")]
      [] OTHER -> [id |-> curId, err |-> Nil]

\* Delete, lines 377-385: the error returned for the answer of client.Delete
groupDeleteOutcome(resp) ==
    CASE resp = "notfound" -> Nil
      [] resp = "err" -> SdkError("Delete")
      [] OTHER -> Nil

\* mutant: the identifier is set before the object is read back
resourceArmContainerGroupCreateSetsIdFirst ==
    /\ kind = "group" /\ pc = "idle" /\ id = ""
    /\ \E r1 \in GetResponses(remote) :
         LET chk == groupExistenceCheck(r1)
             r0 == [Started("Create") EXCEPT !.existsResp = r1]
         IN  IF chk # Nil
             THEN /\ ret' = [r0 EXCEPT !.err = chk]
                  /\ UNCHANGED <<remote, id>>
             ELSE \E c \in CreateOrUpdateResponses :
                    IF c = "err"
                    THEN /\ ret' = [r0 EXCEPT !.cou = 1, !.couResp = c, !.err = SdkError("CreateOrUpdate")]
                         /\ UNCHANGED <<remote, id>>
                    ELSE LET created == [exists |-> TRUE, state |-> "Succeeded"] IN
                         /\ remote' = created
                         /\ \E r2 \in GetResponses(created) :
                              CASE r2 = "err" ->
                                     /\ ret' = [r0 EXCEPT !.cou = 1, !.couResp = c, !.reread = r2,
                                                          !.err = SdkError("Get")]
                                     /\ id' = RemoteID
                                [] r2 = "noid" ->
                                     /\ ret' = [r0 EXCEPT !.cou = 1, !.couResp = c, !.reread = r2,
                                                  !.err = Errorf("Cannot read container group ID", <<>>)]
                                     /\ UNCHANGED id
                                [] OTHER ->
                                     \E r3 \in GetResponses(created) :
                                        LET rd == groupReadOutcome(r3, RemoteID) IN
                                        /\ id' = rd.id
                                        /\ ret' = [r0 EXCEPT !.cou = 1, !.couResp = c, !.reread = r2,
                                                             !.readResp = r3, !.err = rd.err]
    /\ UNCHANGED <<kind, pc, waitState, now, nextPoll, observed, waitEnd, returned>>
    /\ UNCHANGED <<lastPoll, serviceVars, stage, expandVars, volumeVars, readVars>>

\* Create, lines 236-303
resourceArmContainerGroupCreate ==
    /\ kind = "group" /\ pc = "idle" /\ id = ""
    /\ \E r1 \in GetResponses(remote) :
         LET chk == groupExistenceCheck(r1)
             r0 == [Started("Create") EXCEPT !.existsResp = r1]
         IN  IF chk # Nil
             THEN /\ ret' = [r0 EXCEPT !.err = chk]
                  /\ UNCHANGED <<remote, id>>
             ELSE \E c \in CreateOrUpdateResponses :
                    IF c = "err"
                    THEN /\ ret' = [r0 EXCEPT !.cou = 1, !.couResp = c, !.err = SdkError("CreateOrUpdate")]
                         /\ UNCHANGED <<remote, id>>
                    ELSE LET created == [exists |-> TRUE, state |-> "Succeeded"] IN
                         /\ remote' = created
                         /\ \E r2 \in GetResponses(created) :
                              CASE r2 = "err" ->
                                     /\ ret' = [r0 EXCEPT !.cou = 1, !.couResp = c, !.reread = r2,
                                                          !.err = SdkError("Get")]
                                     /\ UNCHANGED id
                                [] r2 = "noid" ->
                                     /\ ret' = [r0 EXCEPT !.cou = 1, !.couResp = c, !.reread = r2,
                                                  !.err = Errorf("Cannot read container group ID", <<>>)]
                                     /\ UNCHANGED id
                                [] OTHER ->
                                     \E r3 \in GetResponses(created) :
                                        LET rd == groupReadOutcome(r3, RemoteID) IN
                                        /\ id' = rd.id
                                        /\ ret' = [r0 EXCEPT !.cou = 1, !.couResp = c, !.reread = r2,
                                                             !.readResp = r3, !.err = rd.err]
    /\ UNCHANGED <<kind, pc, waitState, now, nextPoll, observed, waitEnd, returned>>
    /\ UNCHANGED <<lastPoll, serviceVars, stage, expandVars, volumeVars, readVars>>

resourceArmContainerGroupRead ==
    /\ kind = "group" /\ pc = "idle" /\ id # ""
    /\ \E r \in GetResponses(remote) :
         LET rd == groupReadOutcome(r, id) IN
         /\ id' = rd.id
         /\ ret' = [Started("Read") EXCEPT !.readResp = r, !.err = rd.err]
    /\ UNCHANGED <<kind, remote, pc, waitState, now, nextPoll, observed, waitEnd, returned>>
    /\ UNCHANGED <<lastPoll, serviceVars, stage, expandVars, volumeVars, readVars>>

\* mutant: a Delete call that failed is made a second time
resourceArmContainerGroupDeleteRetries ==
    /\ kind = "group" /\ pc = "idle" /\ id # ""
    /\ \E r1 \in DeleteResponses(remote) :
         \E r \in (IF r1 = "err" THEN DeleteResponses(remote) ELSE {r1}) :
            /\ ret' = [Started("Delete") EXCEPT !.del = IF r1 = "err" THEN 2 ELSE 1,
                                                !.delResp = r,
                                                !.err = groupDeleteOutcome(r)]
            /\ remote' = IF r = "ok" THEN Absent ELSE remote
    /\ UNCHANGED <<kind, id, pc, waitState, now, nextPoll, observed, waitEnd, returned>>
    /\ UNCHANGED <<lastPoll, serviceVars, stage, expandVars, volumeVars, readVars>>

\* Delete, lines 360-386
resourceArmContainerGroupDelete ==
    /\ kind = "group" /\ pc = "idle" /\ id # ""
    /\ \E r \in DeleteResponses(remote) :
         /\ ret' = [Started("Delete") EXCEPT !.del = 1, !.delResp = r,
                                             !.err = groupDeleteOutcome(r)]
         /\ remote' = IF r = "ok" THEN Absent ELSE remote
    /\ UNCHANGED <<kind, id, pc, waitState, now, nextPoll, observed, waitEnd, returned>>
    /\ UNCHANGED <<lastPoll, serviceVars, stage, expandVars, volumeVars, readVars>>

-----------------------------------------------------------------------------
(* Container service: resource_arm_container_service.go *)

\* a context: the time, counted from the start of the wait, at which it
\* expires, or NoDeadline
NoDeadline == -1

\* line 193: ctx := meta.(*ArmClient).StopContext
StopContext == [name |-> "ctx", deadline |-> NoDeadline]

\* line 260: waitCtx, cancel := context.WithTimeout(ctx, timeout)
waitCtx == [name |-> "waitCtx", deadline |-> WaitTimeout]

\* the time a call started at time t under a context may take, NoDeadline
\* when nothing limits it
ContextLimit(ctx, t) ==
    IF ctx.deadline = NoDeadline THEN NoDeadline ELSE ctx.deadline - t

\* mutant: the refresh function is given the context without a deadline
RefreshContextStopContext == StopContext

\* line 265: Refresh: containerServiceStateRefreshFunc(waitCtx, client, ...),
\* whose Get runs under that context (line 559)
RefreshContext == waitCtx

\* no Get of the refresh function yet
NoPoll == [at |-> -1, ctx |-> "none", limit |-> NoDeadline]

\* a Get of the refresh function issued at time t
Poll(t) == [at |-> t, ctx |-> RefreshContext.name, limit |-> ContextLimit(RefreshContext, t)]

\* mutant: Creating is missing from the pending labels
StateConfPendingNoCreating == {"Updating"}

\* mutant: Failed is listed among the pending labels
StateConfPendingWithFailed == {"Updating", "Creating", "Failed"}

\* Pending: []string{"Updating", "Creating"}
StateConfPending == {"Updating", "Creating"}

\* Target: []string{"Succeeded"}
StateConfTarget == {"Succeeded"}

\* CreateUpdate, lines 200-212: the existence check of a new resource
serviceExistenceCheck(isNew, resp) ==
    CASE isNew /\ resp = "err" ->
            Errorf("Error checking for the existence of Container Service", <<"api error">>)
      [] isNew /\ resp = "ok" -> ImportAsExistsError("azurerm_container_service")
      [] OTHER -> Nil

\* Read, lines 289-329: the identifier and the error Read leaves behind
serviceReadOutcome(resp, curId) ==
    CASE resp = "notfound" -> [id |-> "", err |-> Nil]
      [] resp = "err" ->
            [id |-> curId,
             err |-> Errorf("Error making Read request on Azure Container Service", <<"api error">>)]
      [] OTHER -> [id |-> curId, err |-> Nil]

\* Delete, lines 343-355: the error returned for the answer of client.Delete
\* and, when that was accepted, of future.WaitForCompletionRef
serviceDeleteOutcome(resp, completion) ==
    CASE resp # "ok" ->
            Errorf("Error deleting Container Service", <<"api error">>)
      [] completion = "err" -> SdkError("WaitForCompletionRef")
      [] OTHER -> Nil

\* lines 557-566: one refresh: the label read, or the error of the Get
containerServiceStateRefreshFunc(resp, rem) ==
    IF resp \in {"err", "notfound"}
    THEN [state |-> "",
          err |-> Errorf("Error issuing read request in containerServiceStateRefreshFunc",
                         <<"api error">>)]
    ELSE [state |-> rem.state, err |-> Nil]

\* the wait's verdict on one label: target reached, still pending, or a
\* label outside both sets
AwaitTerminalState(label, pending, target) ==
    IF label \in target THEN "Succeeded"
    ELSE IF label \in pending THEN "Pending"
    ELSE "Failed"

\* the error WaitForState returns for an outcome of the wait
WaitForStateError(outcome) ==
    CASE outcome = "Succeeded" -> Nil
      [] outcome = "Failed" ->
            [type |-> "UnexpectedStateError", text |-> <<"unexpected state">>]
      [] outcome = "TimedOut" ->
            [type |-> "TimeoutError", text |-> <<"timeout while waiting for state">>]
      [] OTHER -> containerServiceStateRefreshFunc("err", Absent).err

\* line 270: fmt.Errorf("Error waiting for Container Service ...: %s", err)
WrapWaitError(e) ==
    Errorf("Error waiting for Container Service to become available", e.text)

WaitOutcomes == {"Succeeded", "Failed", "TimedOut", "RefreshError"}

\* the values of a document d of the container service
MasterProfileConfig(count, dnsPrefix) == [count |-> count, dns_prefix |-> dnsPrefix]

LinuxProfileConfig(sshKeys) == [admin_username |-> "admin", ssh_key |-> sshKeys]

SSHKeyConfig == [key_data |-> "ssh-rsa"]

AgentPoolProfileConfig ==
    [name |-> "pool", count |-> 1, dns_prefix |-> "agent", vm_size |-> "Standard_A0"]

DiagnosticsProfileConfig == [enabled |-> FALSE]

\* a document with every required block; a set of blocks is the list that
\* (*schema.Set).List() returns for it
CompleteDocument(count, dnsPrefix) ==
    [master_profile |-> <<MasterProfileConfig(count, dnsPrefix)>>,
     linux_profile |-> <<LinuxProfileConfig(<<SSHKeyConfig>>)>>,
     agent_pool_profile |-> <<AgentPoolProfileConfig>>,
     diagnostics_profile |-> <<DiagnosticsProfileConfig>>]

\* the documents that lack a required block
IncompleteDocuments ==
    LET c == CompleteDocument(1, "x") IN
    {[c EXCEPT !.master_profile = <<>>],
     [c EXCEPT !.linux_profile = <<>>],
     [c EXCEPT !.linux_profile = <<LinuxProfileConfig(<<>>)>>],
     [c EXCEPT !.agent_pool_profile = <<>>],
     [c EXCEPT !.diagnostics_profile = <<>>]}

\* the documents CreateUpdate is called with
ServiceDocuments ==
    {CompleteDocument(1, "x")} \cup IncompleteDocuments

\* the outcome of an expand function: its value, or a run-time panic
\* (index out of range)
Value(v) == [panic |-> FALSE, value |-> v]
Panic == [panic |-> TRUE, value |-> <<>>]

\* lines 498-511
expandAzureRmContainerServiceMasterProfile(configs) ==
    IF Len(configs) = 0 THEN Panic
    ELSE Value([Count |-> Ptr(configs[1].count),
                DNSPrefix |-> Ptr(configs[1].dns_prefix),
                Fqdn |-> NilPtr])

\* lines 470-496
expandAzureRmContainerServiceLinuxProfile(profiles) ==
    IF Len(profiles) = 0 THEN Panic
    ELSE IF Len(profiles[1].ssh_key) = 0 THEN Panic
    ELSE Value([AdminUsername |-> Ptr(profiles[1].admin_username),
                SSH |-> [PublicKeys |->
                            Ptr(<<[KeyData |-> Ptr(profiles[1].ssh_key[1].key_data)]>>)]])

\* lines 535-555
expandAzureRmContainerServiceAgentProfiles(configs) ==
    IF Len(configs) = 0 THEN Panic
    ELSE Value(<<[Name |-> Ptr(configs[1].name),
                  Count |-> Ptr(configs[1].count),
                  VMSize |-> configs[1].vm_size,
                  DNSPrefix |-> Ptr(configs[1].dns_prefix),
                  Fqdn |-> NilPtr]>>)

\* lines 453-468
expandAzureRmContainerServiceDiagnostics(configs) ==
    IF Len(configs) = 0 THEN Panic
    ELSE Value([VMDiagnostics |-> [Enabled |-> Ptr(configs[1].enabled)]])

\* lines 217-235: the Properties of the request, or the panic of the first
\* expand function that fails
expandContainerServiceProperties(d) ==
    LET masterProfile == expandAzureRmContainerServiceMasterProfile(d.master_profile)
        linuxProfile == expandAzureRmContainerServiceLinuxProfile(d.linux_profile)
        agentProfiles == expandAzureRmContainerServiceAgentProfiles(d.agent_pool_profile)
        diagnosticsProfile == expandAzureRmContainerServiceDiagnostics(d.diagnostics_profile)
    IN  IF \/ masterProfile.panic \/ linuxProfile.panic
           \/ agentProfiles.panic \/ diagnosticsProfile.panic
        THEN Panic
        ELSE Value([MasterProfile |-> masterProfile.value,
                    LinuxProfile |-> linuxProfile.value,
                    AgentPoolProfiles |-> agentProfiles.value,
                    DiagnosticsProfile |-> diagnosticsProfile.value])

\* the fully qualified domain name the remote side assigns to the masters
ServerFqdn == "x.cloudapp.azure.com"

\* the Properties the remote object has after an accepted CreateOrUpdate
ServerAssigned(properties) ==
    [properties EXCEPT !.MasterProfile.Fqdn = Ptr(ServerFqdn)]

\* mutant: fqdn is left out of the flattened master profile
flattenAzureRmContainerServiceMasterProfileNoFqdn(profile) ==
    {("count" :> Deref(profile.Count)) @@ ("dns_prefix" :> Deref(profile.DNSPrefix))}

\* lines 358-372
flattenAzureRmContainerServiceMasterProfile(profile) ==
    {("count" :> Deref(profile.Count)) @@ ("dns_prefix" :> Deref(profile.DNSPrefix))
     @@ ("fqdn" :> Deref(profile.Fqdn))}

\* Read, lines 308-309: what Read sets in d for the object the Get returned
resourceArmContainerServiceReadDocument(properties) ==
    [master_profile |-> flattenAzureRmContainerServiceMasterProfile(properties.MasterProfile)]

\* the document in d after a Read whose Get had this answer
serviceReadDocument(readResp, properties, current) ==
    IF readResp \in {"ok", "noid"}
    THEN Ptr(resourceArmContainerServiceReadDocument(Deref(properties)))
    ELSE current

\* CreateUpdate up to the call of WaitForState, lines 191-268
resourceArmContainerServiceCreateUpdate ==
    /\ kind = "service" /\ pc = "idle"
    /\ \E d \in ServiceDocuments :
       /\ serviceDoc' = Ptr(d)
       /\ LET isNew == (id = "")
              op == IF isNew THEN "Create" ELSE "Update"
          IN \E r1 \in (IF isNew THEN GetResponses(remote) ELSE {"none"}) :
            LET chk == serviceExistenceCheck(isNew, r1)
                r0 == [Started(op) EXCEPT !.existsResp = r1]
                properties == expandContainerServiceProperties(d)
            IN  IF chk # Nil
                THEN /\ ret' = [r0 EXCEPT !.err = chk]
                     /\ UNCHANGED <<remote, remoteProps, pc, waitState, now, nextPoll,
                                    observed, waitEnd>>
                ELSE IF properties.panic
                THEN /\ ret' = [r0 EXCEPT !.panic = TRUE]
                     /\ UNCHANGED <<remote, remoteProps, pc, waitState, now, nextPoll,
                                    observed, waitEnd>>
                ELSE \E c \in CreateOrUpdateResponses :
                       IF c = "err"
                       THEN /\ ret' = [r0 EXCEPT !.cou = 1, !.couResp = c,
                                                  !.err = SdkError("CreateOrUpdate")]
                            /\ UNCHANGED <<remote, remoteProps, pc, waitState, now,
                                           nextPoll, observed, waitEnd>>
                       ELSE LET created == AfterCreateOrUpdate(remote) IN
                            /\ remote' = created
                            /\ remoteProps' = Ptr(ServerAssigned(properties.value))
                            /\ \E r2 \in GetResponses(created) :
                                 CASE r2 = "err" ->
                                        /\ ret' = [r0 EXCEPT !.cou = 1, !.couResp = c,
                                                     !.reread = r2, !.err = SdkError("Get")]
                                        /\ UNCHANGED <<pc, waitState, now, nextPoll,
                                                       observed, waitEnd>>
                                   [] r2 = "noid" ->
                                        /\ ret' = [r0 EXCEPT !.cou = 1, !.couResp = c,
                                                     !.reread = r2,
                                                     !.err = Errorf("Cannot read Container Service ID", <<>>)]
                                        /\ UNCHANGED <<pc, waitState, now, nextPoll,
                                                       observed, waitEnd>>
                                   [] OTHER ->
                                        /\ ret' = [r0 EXCEPT !.cou = 1, !.couResp = c,
                                                             !.reread = r2]
                                        /\ pc' = "wait"
                                        /\ waitState' = "Pending"
                                        /\ now' = 0
                                        /\ nextPoll' = 0
                                        /\ observed' = <<>>
                                        /\ waitEnd' = -1
    /\ lastPoll' = IF pc' = "wait" THEN NoPoll ELSE lastPoll
    /\ UNCHANGED <<kind, id, returned, canonical>>
    /\ UNCHANGED <<stage, expandVars, volumeVars, readVars>>

\* one round of WaitForState: Refresh is called and its answer judged
WaitForStateRefresh ==
    /\ kind = "service" /\ pc = "wait" /\ waitState = "Pending"
    /\ now >= nextPoll /\ now < WaitTimeout
    /\ \E resp \in GetResponses(remote) :
         LET r == containerServiceStateRefreshFunc(resp, remote) IN
         IF r.err # Nil
         THEN /\ waitState' = "RefreshError"
              /\ UNCHANGED <<observed, nextPoll>>
         ELSE /\ waitState' = AwaitTerminalState(r.state, StateConfPending, StateConfTarget)
              /\ observed' = Append(observed, r.state)
              /\ nextPoll' = now + MinTimeout
    /\ waitEnd' = IF waitState' = "Pending" THEN -1 ELSE now
    /\ lastPoll' = Poll(now)
    /\ UNCHANGED <<kind, remote, id, pc, ret, now, returned>>
    /\ UNCHANGED <<serviceVars, stage, expandVars, volumeVars, readVars>>

\* the deadline of the wait passes with the label still pending
WaitForStateTimeout ==
    /\ kind = "service" /\ pc = "wait" /\ waitState = "Pending"
    /\ now >= WaitTimeout
    /\ waitState' = "TimedOut"
    /\ waitEnd' = now
    /\ UNCHANGED <<kind, remote, id, pc, ret, now, nextPoll, observed, returned>>
    /\ UNCHANGED <<lastPoll, serviceVars, stage, expandVars, volumeVars, readVars>>

\* mutant: a wait that timed out is started over instead of returned
resourceArmContainerServiceCreateUpdateReturnRetries ==
    /\ kind = "service" /\ pc = "wait" /\ waitState \in WaitOutcomes
    /\ IF waitState = "TimedOut"
       THEN /\ waitState' = "Pending"
            /\ now' = 0
            /\ nextPoll' = 0
            /\ observed' = <<>>
            /\ waitEnd' = -1
            /\ UNCHANGED <<pc, ret, id, returned>>
       ELSE /\ pc' = "idle"
            /\ ret' = [ret EXCEPT !.err = WrapWaitError(WaitForStateError(waitState))]
            /\ id' = IF waitState = "Succeeded" THEN RemoteID ELSE id
            /\ now' = 0
            /\ nextPoll' = 0
            /\ UNCHANGED <<waitState, observed, waitEnd, returned>>
    /\ UNCHANGED <<kind, remote>>
    /\ UNCHANGED <<lastPoll, serviceVars, stage, expandVars, volumeVars, readVars>>

\* mutant: the identifier is set before the error of the wait is looked at
resourceArmContainerServiceCreateUpdateReturnSetsIdFirst ==
    /\ kind = "service" /\ pc = "wait" /\ waitState \in WaitOutcomes
    /\ pc' = "idle"
    /\ LET e == WaitForStateError(waitState) IN
       IF e # Nil
       THEN /\ ret' = [ret EXCEPT !.err = WrapWaitError(e)]
            /\ returned' = returned \cup {<<waitState, WrapWaitError(e).type>>}
            /\ id' = RemoteID
            /\ UNCHANGED canonical
       ELSE \E r3 \in GetResponses(remote) :
              LET rd == serviceReadOutcome(r3, RemoteID) IN
              /\ id' = rd.id
              /\ ret' = [ret EXCEPT !.readResp = r3, !.err = rd.err]
              /\ canonical' = serviceReadDocument(r3, remoteProps, canonical)
              /\ UNCHANGED returned
    /\ now' = 0
    /\ nextPoll' = 0
    /\ lastPoll' = NoPoll
    /\ UNCHANGED <<kind, remote, waitState, observed, waitEnd, serviceDoc, remoteProps>>
    /\ UNCHANGED <<stage, expandVars, volumeVars, readVars>>

\* CreateUpdate from the return of WaitForState, lines 269-275
resourceArmContainerServiceCreateUpdateReturn ==
    /\ kind = "service" /\ pc = "wait" /\ waitState \in WaitOutcomes
    /\ pc' = "idle"
    /\ LET e == WaitForStateError(waitState) IN
       IF e # Nil
       THEN /\ ret' = [ret EXCEPT !.err = WrapWaitError(e)]
            /\ returned' = returned \cup {<<waitState, WrapWaitError(e).type>>}
            /\ UNCHANGED <<id, canonical>>
       ELSE \E r3 \in GetResponses(remote) :
              LET rd == serviceReadOutcome(r3, RemoteID) IN
              /\ id' = rd.id
              /\ ret' = [ret EXCEPT !.readResp = r3, !.err = rd.err]
              /\ canonical' = serviceReadDocument(r3, remoteProps, canonical)
              /\ UNCHANGED returned
    /\ now' = 0
    /\ nextPoll' = 0
    /\ lastPoll' = NoPoll
    /\ UNCHANGED <<kind, remote, waitState, observed, waitEnd, serviceDoc, remoteProps>>
    /\ UNCHANGED <<stage, expandVars, volumeVars, readVars>>

resourceArmContainerServiceRead ==
    /\ kind = "service" /\ pc = "idle" /\ id # ""
    /\ \E r \in GetResponses(remote) :
         LET rd == serviceReadOutcome(r, id) IN
         /\ id' = rd.id
         /\ ret' = [Started("Read") EXCEPT !.readResp = r, !.err = rd.err]
         /\ canonical' = serviceReadDocument(r, remoteProps, canonical)
    /\ UNCHANGED <<kind, remote, pc, waitState, now, nextPoll, observed, waitEnd, returned>>
    /\ UNCHANGED <<lastPoll, serviceDoc, remoteProps>>
    /\ UNCHANGED <<stage, expandVars, volumeVars, readVars>>

resourceArmContainerServiceDelete ==
    /\ kind = "service" /\ pc = "idle" /\ id # ""
    /\ \E r \in DeleteResponses(remote), completion \in {"ok", "err"} :
         /\ ret' = [Started("Delete") EXCEPT !.del = 1, !.delResp = r,
                                             !.err = serviceDeleteOutcome(r, completion)]
         /\ remote' = IF r = "ok" /\ completion = "ok" THEN Absent ELSE remote
         /\ remoteProps' = IF r = "ok" /\ completion = "ok" THEN NilPtr ELSE remoteProps
    /\ UNCHANGED <<kind, id, pc, waitState, now, nextPoll, observed, waitEnd, returned>>
    /\ UNCHANGED <<lastPoll, serviceDoc, canonical>>
    /\ UNCHANGED <<stage, expandVars, volumeVars, readVars>>

-----------------------------------------------------------------------------
(* The environment: the clock and the remote side *)

\* a second passes; a refresh that is due is made first, and the timeout
\* fires at the deadline
Tick ==
    /\ pc = "wait"
    /\ IF waitState = "Pending"
       THEN now < WaitTimeout /\ now < nextPoll
       ELSE now <= WaitTimeout
    /\ now' = now + 1
    /\ UNCHANGED <<kind, remote, id, pc, ret, waitState, nextPoll, observed, waitEnd, returned>>
    /\ UNCHANGED <<lastPoll, serviceVars, stage, expandVars, volumeVars, readVars>>

\* the remote container service moves to another provisioning state
RemoteChange ==
    /\ kind = "service" /\ remote.exists
    /\ \E l \in Labels \ {remote.state} : remote' = [remote EXCEPT !.state = l]
    /\ UNCHANGED <<kind, id, pc, ret, waitState, now, nextPoll, observed, waitEnd, returned>>
    /\ UNCHANGED <<lastPoll, serviceVars, stage, expandVars, volumeVars, readVars>>

-----------------------------------------------------------------------------

Init ==
    /\ kind \in Kinds
    /\ remote \in {Absent, [exists |-> TRUE, state |-> "Succeeded"]}
    /\ id = ""
    /\ pc = "idle"
    /\ ret = NoRet
    /\ waitState = "None"
    /\ now = 0
    /\ nextPoll = 0
    /\ observed = <<>>
    /\ waitEnd = -1
    /\ returned = {}
    /\ lastPoll = NoPoll
    /\ serviceDoc = NilPtr
    /\ remoteProps = IF kind = "service" /\ remote.exists
                     THEN Ptr(ServerAssigned(expandContainerServiceProperties(
                                                CompleteDocument(3, "y")).value))
                     ELSE NilPtr
    /\ canonical = NilPtr
    /\ stage = "handlers"
    /\ doc = <<>> /\ req = <<>> /\ req2 = <<>> /\ flat = <<>>
    /\ volumeMounts = <<>> /\ containerGroupVolumes = <<>>
    /\ containerVolumesConfig = <<>> /\ volumeConfigs = <<>>
    /\ remoteGroup = <<>> /\ prior = <<>> /\ prior2 = <<>> /\ read1 = <<>> /\ read2 = <<>>

Next ==
    \/ resourceArmContainerGroupCreate
    \/ resourceArmContainerGroupRead
    \/ resourceArmContainerGroupDelete
    \/ resourceArmContainerServiceCreateUpdate
    \/ WaitForStateRefresh
    \/ WaitForStateTimeout
    \/ resourceArmContainerServiceCreateUpdateReturn
    \/ resourceArmContainerServiceRead
    \/ resourceArmContainerServiceDelete
    \/ Tick
    \/ RemoteChange

Spec == Init /\ [][Next]_vars

-----------------------------------------------------------------------------
(* Claims about the handlers *)

ImportErrorText == "already exists - needs to be imported"

\* C1: a Create whose initial Get returned an object with an ID returns the
\* "already exists / import" error, sends no CreateOrUpdate and leaves the
\* identifier unset (container group and container service alike).
C1_CreateNeverAdopts ==
    (ret.op = "Create" /\ ret.existsResp = "ok") =>
        /\ pc = "idle"
        /\ ret.err.type # "nil"
        /\ ret.err.text[1] = ImportErrorText
        /\ ret.cou = 0
        /\ id = ""

C1_Witness ==
    /\ ret.op = "Create" /\ ret.existsResp = "ok"
    /\ remote.exists /\ id = "" /\ ret.cou = 0

\* C2: a Delete that the remote API answers with "not found" returns success
\* (container group and container service alike).
C2_DeleteIdempotent ==
    (ret.op = "Delete" /\ ret.delResp = "notfound") => ret.err = Nil

\* C3: a Read whose Get reports "not found" clears the identifier and returns
\* nil; a Read whose Get fails otherwise returns an error and leaves the
\* identifier as it was.
C3_ReadNotFound ==
    ret.op = "Read" =>
        /\ ret.readResp = "notfound" => (id = "" /\ ret.err = Nil)
        /\ ret.readResp = "err" => (ret.err # Nil /\ id = ret.idBefore)

C3_Witness ==
    /\ ret.op = "Read" /\ ret.readResp = "notfound"
    /\ ret.idBefore = RemoteID /\ id = ""

AllObservedPending ==
    \A i \in 1..Len(observed) : observed[i] \in {"Updating", "Creating"}

\* C4: a wait in which every observed label was Updating or Creating ends
\* TimedOut, never Failed, and it ends so only once the deadline has passed;
\* the wait never stays pending beyond the deadline.
C4_TimedOutNotFailed ==
    /\ (waitState \in {"Succeeded", "Failed", "TimedOut"} /\ AllObservedPending)
          => waitState = "TimedOut"
    /\ waitState = "TimedOut" => (waitEnd >= WaitTimeout /\ AllObservedPending)
    /\ (pc = "wait" /\ waitState = "Pending") => now <= WaitTimeout

C4_Witness ==
    /\ pc = "wait" /\ waitState = "TimedOut"
    /\ Len(observed) >= 2 /\ AllObservedPending

\* C5: a label outside {Updating, Creating} and {Succeeded} ends the wait as
\* Failed in the step that observes it: it is the last label observed, and
\* the wait ends before the deadline.
C5_FailedImmediately ==
    \A i \in 1..Len(observed) :
        observed[i] \notin {"Updating", "Creating", "Succeeded"} =>
            /\ i = Len(observed)
            /\ waitState = "Failed"
            /\ waitEnd < WaitTimeout

C5_Witness ==
    /\ pc = "wait" /\ waitState = "Failed"
    /\ Len(observed) >= 2 /\ observed[Len(observed)] = "Failed"
    /\ waitEnd < WaitTimeout

\* C6: the error CreateUpdate returns after a wait that ended on a label
\* outside pending/target is of another kind than the error it returns after
\* a wait that ended by timeout.
C6_DistinctErrorKinds ==
    \A p \in returned, q \in returned :
        (p[1] = "Failed" /\ q[1] = "TimedOut") => p[2] # q[2]

\* C7: a wait starts in Pending; once it is Succeeded, Failed or TimedOut no
\* step of the same wait (a refresh, a label change, a clock tick) changes
\* its state, and CreateUpdate returns from it once, in a terminal state.
C7_TerminalStates ==
    [][ /\ (pc = "idle" /\ pc' = "wait") => waitState' = "Pending"
        /\ (waitState \in {"Succeeded", "Failed", "TimedOut"}
              /\ ~(pc = "idle" /\ pc' = "wait")) => waitState' = waitState
        /\ (pc = "wait" /\ pc' = "idle") =>
              (waitState \in WaitOutcomes /\ waitState' = waitState)
      ]_vars

C7_Witness ==
    /\ pc = "wait" /\ waitState = "TimedOut" /\ now > WaitTimeout
    /\ remote.state = "Succeeded"

\* C12: a Create or Update whose CreateOrUpdate call is rejected returns the
\* error of that call as it is and does not read the object back; one whose
\* read-back fails, or returns an object without an ID, returns an error and
\* leaves the identifier as it was (unset for a Create).
C12_CreateFailureModes ==
    ret.op \in {"Create", "Update"} =>
        /\ ret.couResp = "err" =>
              /\ ret.err = SdkError("CreateOrUpdate")
              /\ ret.reread = "none" /\ ret.readResp = "none"
              /\ pc = "idle" /\ id = ret.idBefore
        /\ ret.reread \in {"err", "noid"} =>
              /\ ret.err # Nil
              /\ pc = "idle" /\ id = ret.idBefore
              /\ ret.readResp = "none"

\* a container group is created and comes back without an ID
C12_Witness ==
    /\ kind = "group" /\ ret.op = "Create"
    /\ ret.couResp = "ok" /\ ret.reread = "noid"
    /\ remote.exists /\ id = ""

\* the wait of the last Create of a container service with master_profile
\* count 1 and dns_prefix "x" observed Creating, Creating, Succeeded
ScenarioPolls == <<"Creating", "Creating", "Succeeded">>

ScenarioCreate ==
    /\ kind = "service" /\ ret.op = "Create"
    /\ Deref(serviceDoc).master_profile = <<MasterProfileConfig(1, "x")>>
    /\ ret.couResp = "ok" /\ ret.reread = "ok"
    /\ observed = ScenarioPolls

\* C13: in that scenario the wait is still pending after the first and the
\* second poll and Succeeded with the third; CreateUpdate then returns with
\* the identifier set, and when the Get of its Read succeeds, d holds a
\* master_profile with count 1, dns_prefix "x" and the fqdn the server assigned.
C13_Scenario ==
    /\ (kind = "service" /\ pc = "wait" /\ ret.op = "Create"
          /\ Len(observed) < Len(ScenarioPolls)
          /\ observed = SubSeq(ScenarioPolls, 1, Len(observed)))
          => waitState \in {"Pending", "TimedOut", "RefreshError"}
    /\ ScenarioCreate => waitState = "Succeeded"
    /\ (ScenarioCreate /\ pc = "idle" /\ ret.readResp \in {"ok", "noid"}) =>
          /\ ret.err = Nil
          /\ id = RemoteID
          /\ ~IsNil(canonical)
          /\ Deref(canonical).master_profile =
                {[count |-> 1, dns_prefix |-> "x", fqdn |-> ServerFqdn]}

C13_Witness ==
    /\ ScenarioCreate /\ pc = "idle" /\ ret.readResp = "ok"
    /\ id = RemoteID /\ remote.state = "Succeeded"

\* C15: every Get of the refresh function runs under waitCtx, the context
\* that expires WaitTimeout after the start of the wait, so the time it may
\* take is what is left until that deadline, and it is started before the
\* deadline.
C15_PollsUnderDeadline ==
    lastPoll # NoPoll =>
        /\ lastPoll.ctx = "waitCtx"
        /\ lastPoll.at < WaitTimeout
        /\ lastPoll.limit # NoDeadline
        /\ lastPoll.at + lastPoll.limit = WaitTimeout

\* the third Get of a wait, with less than the full timeout left
C15_Witness ==
    /\ pc = "wait" /\ Len(observed) = 3
    /\ lastPoll.at > MinTimeout
    /\ lastPoll.limit < WaitTimeout - MinTimeout

\* C16: an invocation of Create or Update issues at most one CreateOrUpdate
\* call and an invocation of Delete at most one Delete call; when the call
\* fails the invocation ends with an error after that one call.
C16_NoRetries ==
    /\ ret.cou <= 1
    /\ ret.del <= 1
    /\ ret.couResp = "err" => (ret.cou = 1 /\ ret.err # Nil /\ pc = "idle")
    /\ ret.delResp = "err" => (ret.del = 1 /\ ret.err # Nil)
    /\ (pc = "wait") => ret.cou = 1

\* a Delete whose call failed, with the remote object still there
C16_Witness ==
    /\ ret.op = "Delete" /\ ret.delResp = "err"
    /\ ret.del = 1 /\ ret.err # Nil
    /\ remote.exists /\ id # ""

\* C17: the identifier of a container service becomes set only in the return
\* from a wait that observed Succeeded; a CreateUpdate that ends with an
\* error of the existence check, of CreateOrUpdate or of the read-back leaves
\* the identifier as it was, and so does the return from a wait that ended
\* otherwise, which returns an error without the Get of the final Read.
C17_IdOnlyAfterSucceeded ==
    [][ kind = "service" =>
          /\ (id' # id /\ id' # "") =>
                /\ pc = "wait" /\ pc' = "idle"
                /\ waitState = "Succeeded"
                /\ Len(observed) > 0 /\ observed[Len(observed)] = "Succeeded"
          /\ (pc = "idle" /\ ret' # ret /\ ret'.op \in {"Create", "Update"}) => id' = id
          /\ (pc = "wait" /\ pc' = "idle" /\ waitState # "Succeeded") =>
                /\ waitState \in {"Failed", "TimedOut", "RefreshError"}
                /\ id' = id
                /\ ret'.err # Nil
                /\ ret'.readResp = "none"
      ]_vars

\* a Create whose wait timed out: the remote object exists, the identifier
\* is not set
C17_Witness ==
    /\ kind = "service" /\ pc = "idle" /\ ret.op = "Create"
    /\ waitState = "TimedOut" /\ ret.err # Nil /\ ret.readResp = "none"
    /\ remote.exists /\ id = ""

\* the document of the last CreateUpdate lacks a required block
IncompleteDocument == Deref(serviceDoc) \in IncompleteDocuments

-----------------------------------------------------------------------------
(* Container group: Expand, lines 510-596 and 651-693 *)

\* lines 583-596: one EnvironmentVariable per key, in the order the range
\* over the map visits the keys
expandContainerEnvironmentVariables(input, order) ==
    Ptr([i \in 1..Len(order) |-> [Name |-> order[i], Value |-> input[order[i]]]])

\* lines 651-693
expandContainerVolumes(input) ==
    IF Len(input) = 0
    THEN [volumeMounts |-> NilPtr, containerGroupVolumes |-> NilPtr]
    ELSE [volumeMounts |->
            Ptr([i \in 1..Len(input) |->
                   [Name |-> input[i].name,
                    MountPath |-> input[i].mount_path,
                    ReadOnly |-> Ptr(input[i].read_only)]]),
          containerGroupVolumes |->
            Ptr([i \in 1..Len(input) |->
                   [Name |-> input[i].name,
                    AzureFile |->
                      Ptr([ShareName |-> input[i].share_name,
                           ReadOnly |-> input[i].read_only,
                           StorageAccountName |-> input[i].storage_account_name,
                           StorageAccountKey |-> input[i].storage_account_key])]])]

\* lines 517-577: the Container built from one element of the list
expandContainer(data, order) ==
    [Name |-> data.name,
     Image |-> data.image,
     Resources |-> [MemoryInGB |-> data.memory, CPU |-> data.cpu],
     Ports |-> IF data.port # 0 THEN Ptr(<<[Port |-> data.port]>>) ELSE NilPtr,
     EnvironmentVariables |->
        expandContainerEnvironmentVariables(data.environment_variables, order),
     Command |-> IF data.command # <<>> THEN Ptr(Split(data.command, " ")) ELSE NilPtr,
     VolumeMounts |-> expandContainerVolumes(data.volume).volumeMounts]

\* lines 538-558: the group-level port an element of the list adds
expandContainerGroupPort(data) ==
    IF data.port # 0
    THEN <<[Port |-> data.port, Protocol |-> ToUpper(data.protocol)]>>
    ELSE <<>>

\* lines 569-575: the group-level volumes an element of the list adds
expandContainerGroupVolumesPartial(data) ==
    LET partial == expandContainerVolumes(data.volume).containerGroupVolumes
    IN  IF IsNil(partial) THEN <<>> ELSE Deref(partial)

\* lines 510-581; orders[i] is the order in which the i-th container's
\* environment_variables map is ranged over
expandContainerGroupContainers(containersConfig, orders) ==
    LET n == Len(containersConfig) IN
    [containers |-> Ptr([i \in 1..n |-> expandContainer(containersConfig[i], orders[i])]),
     containerGroupPorts |->
        Ptr(Concat([i \in 1..n |-> expandContainerGroupPort(containersConfig[i])])),
     containerGroupVolumes |->
        Ptr(Concat([i \in 1..n |-> expandContainerGroupVolumesPartial(containersConfig[i])]))]

-----------------------------------------------------------------------------
(* Container group: Flatten, lines 388-508 *)

\* lines 455-466: a later variable of the same name overwrites an earlier one
flattenContainerEnvironmentVariables(input) ==
    LET vs == Deref(input) IN
    [k \in {vs[i].Name : i \in 1..Len(vs)} |->
        vs[Max({i \in 1..Len(vs) : vs[i].Name = k})].Value]

\* mutant: the names of group-level volumes are matched ignoring their case
flattenContainerVolumeIgnoringCase(vm, cgvs, containerVolumesConfigPtr) ==
    LET Upper(n) == IF n = "v1" THEN "V1" ELSE n
        inGroup == {j \in 1..Len(cgvs) :
                        Upper(cgvs[j].Name) = Upper(vm.Name) /\ ~IsNil(cgvs[j].AzureFile)}
        cfg == IF IsNil(containerVolumesConfigPtr) THEN <<>> ELSE Deref(containerVolumesConfigPtr)
        inConfig == {j \in 1..Len(cfg) : cfg[j].name = vm.Name}
    IN  ("name" :> vm.Name) @@ ("mount_path" :> vm.MountPath)
        @@ (IF IsNil(vm.ReadOnly) THEN EmptyMap ELSE "read_only" :> Deref(vm.ReadOnly))
        @@ (IF inGroup = {} THEN EmptyMap
            ELSE LET file == Deref(cgvs[Max(inGroup)].AzureFile) IN
                 ("share_name" :> file.ShareName)
                 @@ ("storage_account_name" :> file.StorageAccountName))
        @@ (IF inConfig = {} THEN EmptyMap
            ELSE "storage_account_key" :> cfg[Max(inConfig)].storage_account_key)

\* lines 472-504: the configuration of one volume mount
flattenContainerVolume(vm, cgvs, containerVolumesConfigPtr) ==
    LET inGroup == {j \in 1..Len(cgvs) :
                        cgvs[j].Name = vm.Name /\ ~IsNil(cgvs[j].AzureFile)}
        cfg == IF IsNil(containerVolumesConfigPtr) THEN <<>> ELSE Deref(containerVolumesConfigPtr)
        inConfig == {j \in 1..Len(cfg) : cfg[j].name = vm.Name}
    IN  ("name" :> vm.Name) @@ ("mount_path" :> vm.MountPath)
        @@ (IF IsNil(vm.ReadOnly) THEN EmptyMap ELSE "read_only" :> Deref(vm.ReadOnly))
        @@ (IF inGroup = {} THEN EmptyMap
            ELSE LET file == Deref(cgvs[Max(inGroup)].AzureFile) IN
                 ("share_name" :> file.ShareName)
                 @@ ("storage_account_name" :> file.StorageAccountName))
        @@ (IF inConfig = {} THEN EmptyMap
            ELSE "storage_account_key" :> cfg[Max(inConfig)].storage_account_key)

\* lines 468-508: one entry for every volume mount, in their order
flattenContainerVolumes(volumeMountsPtr, containerGroupVolumesPtr, containerVolumesConfigPtr) ==
    LET vms == Deref(volumeMountsPtr)
        cgvs == Deref(containerGroupVolumesPtr)
    IN  [i \in 1..Len(vms) |-> flattenContainerVolume(vms[i], cgvs, containerVolumesConfigPtr)]

\* lines 430 and 446: the "volume" list of a container, nil when the key is
\* not set: the group has no volumes list or the container no mounts list
flattenContainerVolumeKey(volumeMountsPtr, containerGroupVolumesPtr, containerVolumesConfigPtr) ==
    IF ~IsNil(containerGroupVolumesPtr) /\ ~IsNil(volumeMountsPtr)
    THEN Ptr(flattenContainerVolumes(volumeMountsPtr, containerGroupVolumesPtr,
                                     containerVolumesConfigPtr))
    ELSE NilPtr

\* lines 407-414: the protocol of the last group-level port with this number
containerGroupPortProtocol(containerPort, containerGroupPortsPtr) ==
    IF IsNil(containerGroupPortsPtr) THEN ""
    ELSE LET ps == Deref(containerGroupPortsPtr)
             same == {j \in 1..Len(ps) : ps[j].Port = containerPort}
         IN  IF same = {} THEN "" ELSE ps[Max(same)].Protocol

\* mutant: the volumes of the first container of the local document are
\* taken, whatever its name
containerVolumesConfigOfFirst(d, name) ==
    IF Len(d) = 0 THEN NilPtr ELSE Ptr(d[1].volume)

\* lines 432-445: the volumes of the container of this name in the local
\* document, of the last one when several have the name
containerVolumesConfigOf(d, name) ==
    LET same == {j \in 1..Len(d) : d[j].name = name}
    IN  IF same = {} THEN NilPtr ELSE Ptr(d[Max(same)].volume)

\* lines 392-449: the configuration of one container; container.Ports is
\* not nil here
flattenContainer(d, container, containerGroupPortsPtr, containerGroupVolumesPtr) ==
    LET ports == Deref(container.Ports)
        protocol == containerGroupPortProtocol(ports[1].Port, containerGroupPortsPtr)
    IN  ("name" :> container.Name) @@ ("image" :> container.Image)
        @@ ("cpu" :> container.Resources.CPU) @@ ("memory" :> container.Resources.MemoryInGB)
        @@ (IF Len(ports) > 0
            THEN ("port" :> ports[1].Port)
                 @@ (IF protocol # "" THEN "protocol" :> protocol ELSE EmptyMap)
            ELSE EmptyMap)
        @@ (IF ~IsNil(container.EnvironmentVariables)
               /\ Len(Deref(container.EnvironmentVariables)) > 0
            THEN "environment_variables" :>
                    flattenContainerEnvironmentVariables(container.EnvironmentVariables)
            ELSE EmptyMap)
        @@ (IF ~IsNil(container.Command)
            THEN "command" :> Join(Deref(container.Command), " ")
            ELSE EmptyMap)
        @@ (LET volume == flattenContainerVolumeKey(container.VolumeMounts,
                                containerGroupVolumesPtr,
                                containerVolumesConfigOf(d, container.Name))
            IN  IF IsNil(volume) THEN EmptyMap ELSE "volume" :> Deref(volume))

\* lines 388-453; line 403 dereferences container.Ports without a nil check,
\* which panics for a container that carries no ports list
flattenContainerGroupContainers(d, containers, containerGroupPortsPtr, containerGroupVolumesPtr) ==
    LET cs == Deref(containers) IN
    IF \E i \in 1..Len(cs) : IsNil(cs[i].Ports)
    THEN [panic |-> TRUE, containerConfigs |-> <<>>]
    ELSE [panic |-> FALSE,
          containerConfigs |->
            [i \in 1..Len(cs) |->
                flattenContainer(d, cs[i], containerGroupPortsPtr, containerGroupVolumesPtr)]]

\* mutant: the server is copied from the local document where it has an
\* entry at the same index
flattenContainerImageRegistryCredentialsServerFromConfig(configsOld, credsPtr) ==
    IF IsNil(credsPtr) THEN <<>>
    ELSE LET creds == Deref(credsPtr) IN
         [i \in 1..Len(creds) |->
            (IF Len(configsOld) >= i THEN "server" :> configsOld[i].server
             ELSE IF ~IsNil(creds[i].Server) THEN "server" :> Deref(creds[i].Server)
             ELSE EmptyMap)
            @@ (IF ~IsNil(creds[i].Username)
                THEN "username" :> Deref(creds[i].Username) ELSE EmptyMap)
            @@ (IF /\ Len(configsOld) >= i
                   /\ ~IsNil(creds[i].Server)
                   /\ Deref(creds[i].Server) = configsOld[i].server
                   /\ configsOld[i].password # ""
                THEN "password" :> configsOld[i].password ELSE EmptyMap)]

\* lines 619-649; configsOld is d.Get("image_registry_credential"), and
\* d.GetOk of the password at index i succeeds when it is stored and not ""
flattenContainerImageRegistryCredentials(configsOld, credsPtr) ==
    IF IsNil(credsPtr) THEN <<>>
    ELSE LET creds == Deref(credsPtr) IN
         [i \in 1..Len(creds) |->
            (IF ~IsNil(creds[i].Server)
             THEN "server" :> Deref(creds[i].Server) ELSE EmptyMap)
            @@ (IF ~IsNil(creds[i].Username)
                THEN "username" :> Deref(creds[i].Username) ELSE EmptyMap)
            @@ (IF /\ Len(configsOld) >= i
                   /\ ~IsNil(creds[i].Server)
                   /\ Deref(creds[i].Server) = configsOld[i].server
                   /\ configsOld[i].password # ""
                THEN "password" :> configsOld[i].password ELSE EmptyMap)]

\* Read, lines 336-355: what Read sets in d for "image_registry_credential"
\* and "container", given the document d holds and the object the Get returned
resourceArmContainerGroupReadDocument(d, group) ==
    LET creds == flattenContainerImageRegistryCredentials(d.image_registry_credential,
                                                          group.ImageRegistryCredentials)
        cs == flattenContainerGroupContainers(d.container, group.Containers,
                                              group.Ports, group.Volumes)
    IN  IF cs.panic
        THEN [panic |-> TRUE, image_registry_credential |-> <<>>, container |-> <<>>]
        ELSE [panic |-> FALSE, image_registry_credential |-> creds,
              container |-> cs.containerConfigs]

-----------------------------------------------------------------------------
(* SpecExpand: Expand twice, and Flatten of the expanded request *)

\* the longest "container" list of a document
MaxContainers == 2

ContainerNames == <<"a", "b", "c", "d">>

\* port and protocol of a container: 0 and "" when not configured
PortProtocols == {<<0, "">>, <<80, "">>, <<80, "tcp">>, <<80, "UDP">>, <<443, "tcp">>}

VolumeConfig(name, share, readOnly) ==
    [name |-> name, mount_path |-> "/mnt", read_only |-> readOnly,
     share_name |-> share, storage_account_name |-> "account",
     storage_account_key |-> "key"]

\* the optional settings of a container: none; environment variables, the
\* command "x y" and a volume; a volume of the same name on another share
ContainerExtras ==
    {[environment_variables |-> EmptyMap, command |-> <<>>, volume |-> <<>>],
     [environment_variables |-> [K1 |-> "v1", K2 |-> "v2"],
      command |-> <<"x", " ", "y">>,
      volume |-> <<VolumeConfig("v1", "s1", FALSE)>>],
     [environment_variables |-> EmptyMap, command |-> <<>>,
      volume |-> <<VolumeConfig("v1", "s2", TRUE)>>]}

\* what the elements of the list can be, but for their names
ContainerSettings ==
    {[pp |-> p, environment_variables |-> e.environment_variables,
      command |-> e.command, volume |-> e.volume] :
        p \in PortProtocols, e \in ContainerExtras}

ContainerConfig(name, c) ==
    [name |-> name, image |-> "image", cpu |-> 1, memory |-> 2,
     port |-> c.pp[1], protocol |-> c.pp[2],
     environment_variables |-> c.environment_variables,
     command |-> c.command, volume |-> c.volume]

RECURSIVE DocumentsOfLen(_)
\* the lists of n containers, of distinct names
DocumentsOfLen(n) ==
    IF n = 0 THEN {<<>>}
    ELSE {Append(d, ContainerConfig(ContainerNames[n], c)) :
             d \in DocumentsOfLen(n - 1), c \in ContainerSettings}

\* the documents: lists of one to MaxContainers containers
Documents == UNION {DocumentsOfLen(n) : n \in 1..MaxContainers}

RECURSIVE MapOrdersOfFirst(_, _)
MapOrdersOfFirst(containersConfig, n) ==
    IF n = 0 THEN {<<>>}
    ELSE {Append(os, o) :
             os \in MapOrdersOfFirst(containersConfig, n - 1),
             o \in Orders(DOMAIN containersConfig[n].environment_variables)}

\* for every container, an order of visiting its environment variables
MapOrders(containersConfig) == MapOrdersOfFirst(containersConfig, Len(containersConfig))

InitExpand ==
    /\ stage = "input"
    /\ doc \in Documents
    /\ req = <<>> /\ req2 = <<>> /\ flat = <<>>
    /\ kind = "group" /\ remote = Absent /\ id = "" /\ pc = "idle" /\ ret = NoRet
    /\ waitState = "None" /\ now = 0 /\ nextPoll = 0 /\ observed = <<>>
    /\ waitEnd = -1 /\ returned = {}
    /\ serviceDoc = <<>> /\ remoteProps = <<>> /\ canonical = <<>>
    /\ lastPoll = NoPoll
    /\ volumeMounts = <<>> /\ containerGroupVolumes = <<>>
    /\ containerVolumesConfig = <<>> /\ volumeConfigs = <<>>
    /\ remoteGroup = <<>> /\ prior = <<>> /\ prior2 = <<>> /\ read1 = <<>> /\ read2 = <<>>

Expand ==
    /\ stage = "input"
    /\ \E orders \in MapOrders(doc) : req' = expandContainerGroupContainers(doc, orders)
    /\ stage' = "expanded"
    /\ UNCHANGED <<handlerVars, doc, req2, flat, volumeVars, readVars>>

ExpandAgain ==
    /\ stage = "expanded"
    /\ \E orders \in MapOrders(doc) : req2' = expandContainerGroupContainers(doc, orders)
    /\ stage' = "expandedTwice"
    /\ UNCHANGED <<handlerVars, doc, req, flat, volumeVars, readVars>>

Flatten ==
    /\ stage = "expanded"
    /\ flat' = flattenContainerGroupContainers(doc, req.containers,
                    req.containerGroupPorts, req.containerGroupVolumes)
    /\ stage' = "flattened"
    /\ UNCHANGED <<handlerVars, doc, req, req2, volumeVars, readVars>>

NextExpand == Expand \/ ExpandAgain \/ Flatten

SpecExpand == InitExpand /\ [][NextExpand]_vars

\* the value of a field of a flattened configuration: the zero value when
\* the key is not set
Field(m, k, zero) == IF HasKey(m, k) THEN m[k] ELSE zero

VolumeReproduced(v, f) ==
    /\ Field(f, "name", "") = v.name
    /\ Field(f, "mount_path", "") = v.mount_path
    /\ Field(f, "read_only", FALSE) = v.read_only
    /\ Field(f, "share_name", "") = v.share_name
    /\ Field(f, "storage_account_name", "") = v.storage_account_name

ContainerReproduced(c, f) ==
    /\ Field(f, "name", "") = c.name
    /\ Field(f, "image", "") = c.image
    /\ Field(f, "cpu", 0) = c.cpu
    /\ Field(f, "memory", 0) = c.memory
    /\ Field(f, "port", 0) = c.port
    /\ ToUpper(Field(f, "protocol", "")) = ToUpper(c.protocol)
    /\ Field(f, "environment_variables", EmptyMap) = c.environment_variables
    /\ Field(f, "command", <<>>) = c.command
    /\ LET vs == Field(f, "volume", <<>>) IN
       /\ Len(vs) = Len(c.volume)
       /\ \A j \in 1..Len(vs) : VolumeReproduced(c.volume[j], vs[j])

\* C8: flattening the request Expand made of a document gives back every
\* field of every container of the document but storage_account_key (the
\* protocol up to its case, which the schema ignores).
C8_RoundTrip ==
    stage = "flattened" =>
        /\ ~flat.panic
        /\ Len(flat.containerConfigs) = Len(doc)
        /\ \A i \in 1..Len(doc) : ContainerReproduced(doc[i], flat.containerConfigs[i])

\* C18: flattening the request Expand made of a document completes without a
\* failure when a container of the document has no port, and the entry of
\* such a container has neither a port nor a protocol.
C18_NoPortFlattenCompletes ==
    stage = "flattened" =>
        \A i \in 1..Len(doc) :
            doc[i].port = 0 =>
                /\ ~flat.panic
                /\ ~HasKey(flat.containerConfigs[i], "port")
                /\ ~HasKey(flat.containerConfigs[i], "protocol")

\* C19: where Flatten completes, the protocol of every flattened container is
\* the protocol of the same container of the document (up to its case, which
\* the schema ignores).
C19_ProtocolPerContainer ==
    (stage = "flattened" /\ ~flat.panic) =>
        \A i \in 1..Len(doc) :
            ToUpper(Field(flat.containerConfigs[i], "protocol", "")) = ToUpper(doc[i].protocol)

\* C10: two runs of Expand on the same document give the same request.
C10_ExpandDeterministic ==
    stage = "expandedTwice" => req2 = req

-----------------------------------------------------------------------------
(* SpecVolumes: the "volume" list of one container, flattened from volume
   mounts, group-level volumes and a local configuration that need not
   belong together *)

\* the longest list of volume mounts and of group-level volumes
MaxVolumes == 2

RECURSIVE SeqsOfLen(_, _)
SeqsOfLen(S, n) ==
    IF n = 0 THEN {<<>>}
    ELSE {Append(q, x) : q \in SeqsOfLen(S, n - 1), x \in S}

\* a nil list, or a list of at most n elements of S
ListPtrs(S, n) ==
    {NilPtr} \cup {Ptr(q) : q \in UNION {SeqsOfLen(S, k) : k \in 0..n}}

VolumeMounts ==
    [Name : {"v1", "v2"}, MountPath : {"/mnt"}, ReadOnly : {NilPtr, Ptr(TRUE)}]

AzureFiles ==
    [ShareName : {"s1", "s2"}, ReadOnly : {FALSE},
     StorageAccountName : {"account"}, StorageAccountKey : {"key"}]

\* group-level volumes: "V1" differs from the mount name "v1" by case only
Volumes ==
    [Name : {"v1", "V1"}, AzureFile : {NilPtr} \cup {Ptr(f) : f \in AzureFiles}]

ContainerVolumesConfigs ==
    {NilPtr, Ptr(<<VolumeConfig("v1", "s1", FALSE)>>), Ptr(<<VolumeConfig("v2", "s1", FALSE)>>)}

InitVolumes ==
    /\ stage = "input"
    /\ volumeMounts \in ListPtrs(VolumeMounts, MaxVolumes)
    /\ containerGroupVolumes \in ListPtrs(Volumes, MaxVolumes)
    /\ containerVolumesConfig \in ContainerVolumesConfigs
    /\ volumeConfigs = NilPtr
    /\ remoteGroup = <<>> /\ prior = <<>> /\ prior2 = <<>> /\ read1 = <<>> /\ read2 = <<>>
    /\ doc = <<>> /\ req = <<>> /\ req2 = <<>> /\ flat = <<>>
    /\ kind = "group" /\ remote = Absent /\ id = "" /\ pc = "idle" /\ ret = NoRet
    /\ waitState = "None" /\ now = 0 /\ nextPoll = 0 /\ observed = <<>>
    /\ waitEnd = -1 /\ returned = {}
    /\ serviceDoc = <<>> /\ remoteProps = <<>> /\ canonical = <<>>
    /\ lastPoll = NoPoll

FlattenVolumes ==
    /\ stage = "input"
    /\ volumeConfigs' = flattenContainerVolumeKey(volumeMounts, containerGroupVolumes,
                                                  containerVolumesConfig)
    /\ stage' = "flattened"
    /\ UNCHANGED <<handlerVars, expandVars, volumeMounts, containerGroupVolumes,
                   containerVolumesConfig, readVars>>

NextVolumes == FlattenVolumes

SpecVolumes == InitVolumes /\ [][NextVolumes]_vars

\* a nil list has no elements
Elements(listPtr) == IF IsNil(listPtr) THEN <<>> ELSE Deref(listPtr)

\* the group-level volumes whose name is exactly this one
GroupVolumesNamed(name) ==
    {j \in 1..Len(Elements(containerGroupVolumes)) :
        Elements(containerGroupVolumes)[j].Name = name}

\* an entry of the output carries share_name and storage_account_name of a
\* group-level volume of exactly the mount's name, or neither of the two
SharesOnlyFromNamesake(e, vm) ==
    /\ HasKey(e, "share_name") <=> HasKey(e, "storage_account_name")
    /\ HasKey(e, "share_name") =>
          \E j \in GroupVolumesNamed(vm.Name) :
             LET v == Elements(containerGroupVolumes)[j] IN
             /\ ~IsNil(v.AzureFile)
             /\ e["share_name"] = Deref(v.AzureFile).ShareName
             /\ e["storage_account_name"] = Deref(v.AzureFile).StorageAccountName
    /\ (\E j \in GroupVolumesNamed(vm.Name) :
            ~IsNil(Elements(containerGroupVolumes)[j].AzureFile))
          => HasKey(e, "share_name")

-----------------------------------------------------------------------------
(* SpecRead: two Reads of a container group against the same remote object,
   each with a local document of its own *)

VolumeConfigWithKey(name, key) ==
    [VolumeConfig(name, "s1", FALSE) EXCEPT !.storage_account_key = key]

\* a container of a document with port 80/tcp and these volumes
ContainerWithVolumes(name, volumes) ==
    ContainerConfig(name, [pp |-> <<80, "tcp">>, environment_variables |-> EmptyMap,
                           command |-> <<>>, volume |-> volumes])

\* the "container" lists the remote objects were created from
RemoteContainerLists ==
    {<<ContainerWithVolumes("a", <<VolumeConfig("v1", "s1", FALSE)>>)>>,
     <<ContainerWithVolumes("a", <<VolumeConfig("v1", "s1", FALSE),
                                   VolumeConfig("v2", "s2", FALSE)>>),
       ContainerWithVolumes("b", <<>>)>>,
     <<ContainerWithVolumes("a", <<VolumeConfig("v1", "s1", FALSE)>>),
       ContainerWithVolumes("b", <<VolumeConfig("v2", "s2", FALSE)>>)>>,
     <<ContainerWithVolumes("a", <<>>)>>}

ImageRegistryCredential(server) == [Server |-> Ptr(server), Username |-> Ptr("user")]

\* the credentials of the remote object; the API never returns a password
RemoteCredentials ==
    {NilPtr,
     Ptr(<<ImageRegistryCredential("r1")>>),
     Ptr(<<ImageRegistryCredential("r1"), ImageRegistryCredential("r2")>>)}

\* the remote objects: what Expand sent, as the API returns it
RemoteGroups ==
    {LET e == expandContainerGroupContainers(cs, [i \in 1..Len(cs) |-> <<>>]) IN
     [Containers |-> e.containers, Ports |-> e.containerGroupPorts,
      Volumes |-> IF Len(Deref(e.containerGroupVolumes)) = 0
                  THEN NilPtr ELSE e.containerGroupVolumes,
      ImageRegistryCredentials |-> c] :
        cs \in RemoteContainerLists, c \in RemoteCredentials}

\* "container" of the local document: none after an import, or what an
\* earlier apply or Read stored
PriorContainerLists ==
    {<<>>,
     <<ContainerWithVolumes("a", <<VolumeConfigWithKey("v1", "k1")>>)>>,
     <<ContainerWithVolumes("a", <<VolumeConfigWithKey("v1", "k2")>>)>>,
     <<ContainerWithVolumes("a", <<VolumeConfigWithKey("v2", "k1")>>)>>,
     <<ContainerWithVolumes("b", <<VolumeConfigWithKey("v1", "k1")>>)>>,
     <<ContainerWithVolumes("a", <<VolumeConfigWithKey("v1", "k1")>>),
       ContainerWithVolumes("b", <<VolumeConfigWithKey("v2", "k2")>>)>>}

CredentialConfig(server, password) ==
    [server |-> server, username |-> "user", password |-> password]

\* "image_registry_credential" of the local document; the password is ""
\* where an earlier Read stored an entry without one
PriorCredentialLists ==
    {<<>>,
     <<CredentialConfig("r1", "p1")>>,
     <<CredentialConfig("r1", "p2")>>,
     <<CredentialConfig("r2", "p1")>>,
     <<CredentialConfig("r1", "")>>,
     <<CredentialConfig("r2", "p1"), CredentialConfig("r1", "p1")>>,
     <<CredentialConfig("r1", "p1"), CredentialConfig("r1", "p2")>>,
     <<CredentialConfig("r1", "p1"), CredentialConfig("r2", "p2")>>}

PriorDocuments ==
    [container : PriorContainerLists, image_registry_credential : PriorCredentialLists]

InitRead ==
    /\ stage = "input"
    /\ remoteGroup \in RemoteGroups
    /\ prior \in PriorDocuments
    /\ prior2 = <<>> /\ read1 = <<>> /\ read2 = <<>>
    /\ doc = <<>> /\ req = <<>> /\ req2 = <<>> /\ flat = <<>>
    /\ kind = "group" /\ remote = Absent /\ id = RemoteID /\ pc = "idle" /\ ret = NoRet
    /\ waitState = "None" /\ now = 0 /\ nextPoll = 0 /\ observed = <<>>
    /\ waitEnd = -1 /\ returned = {}
    /\ serviceDoc = <<>> /\ remoteProps = <<>> /\ canonical = <<>>
    /\ lastPoll = NoPoll
    /\ volumeMounts = <<>> /\ containerGroupVolumes = <<>>
    /\ containerVolumesConfig = <<>> /\ volumeConfigs = <<>>

\* a Read with the local document prior
ReadOnce ==
    /\ stage = "input"
    /\ read1' = resourceArmContainerGroupReadDocument(prior, remoteGroup)
    /\ stage' = "readOnce"
    /\ UNCHANGED <<handlerVars, expandVars, volumeVars, remoteGroup, prior, prior2, read2>>

\* another Read with the same identifier against the same remote object,
\* with some local document
ReadAgain ==
    /\ stage = "readOnce"
    /\ \E d \in PriorDocuments :
         /\ prior2' = d
         /\ read2' = resourceArmContainerGroupReadDocument(d, remoteGroup)
    /\ stage' = "readTwice"
    /\ UNCHANGED <<handlerVars, expandVars, volumeVars, remoteGroup, prior, read1>>

NextRead == ReadOnce \/ ReadAgain

SpecRead == InitRead /\ [][NextRead]_vars

\* a flattened map without one of its keys
Without(m, key) == [k \in (DOMAIN m) \ {key} |-> m[k]]

\* a document Read produced, without its write-only fields
WithoutSecrets(r) ==
    [panic |-> r.panic,
     image_registry_credential |->
        [i \in 1..Len(r.image_registry_credential) |->
            Without(r.image_registry_credential[i], "password")],
     container |->
        [i \in 1..Len(r.container) |->
            IF HasKey(r.container[i], "volume")
            THEN [r.container[i] EXCEPT !["volume"] =
                    [j \in 1..Len(@) |-> Without(@[j], "storage_account_key")]]
            ELSE r.container[i]]]

\* C11 as stated: two Reads with the same identifier against the same remote
\* object leave the same document, whatever the local documents were.
C11_ReadIndependentOfPrior ==
    stage = "readTwice" => read2 = read1

\* C11 amended: the two documents agree in every field but the write-only
\* ones, storage_account_key of a volume and password of a registry
\* credential, which Read takes from the local document.
C11_ReadDiffersOnlyInSecrets ==
    stage = "readTwice" => WithoutSecrets(read2) = WithoutSecrets(read1)

\* two Reads whose documents differ in a storage_account_key and in a password
C11_Witness ==
    /\ stage = "readTwice"
    /\ ~read1.panic
    /\ \E i \in 1..Len(read1.container) :
          /\ HasKey(read1.container[i], "volume")
          /\ \E j \in 1..Len(read1.container[i]["volume"]) :
                /\ HasKey(read1.container[i]["volume"][j], "storage_account_key")
                /\ HasKey(read2.container[i]["volume"][j], "storage_account_key")
                /\ read1.container[i]["volume"][j]["storage_account_key"]
                      # read2.container[i]["volume"][j]["storage_account_key"]
    /\ \E i \in 1..Len(read1.image_registry_credential) :
          /\ HasKey(read1.image_registry_credential[i], "password")
          /\ ~HasKey(read2.image_registry_credential[i], "password")

\* the volumes of the local document that belong to a container of this
\* name and have this name: <<index of the container, index of the volume>>
PriorVolumesNamed(containerName, volumeName) ==
    {m \in (1..Len(prior.container)) \X (1..2) :
        /\ prior.container[m[1]].name = containerName
        /\ m[2] <= Len(prior.container[m[1]].volume)
        /\ prior.container[m[1]].volume[m[2]].name = volumeName}

\* C20: in the document a Read leaves (the containers and the volumes of a
\* container of the local document having distinct names), a volume has
\* storage_account_key exactly when the local document has a container of
\* the same name with a volume of the same name, whose key it is; the i-th
\* registry credential has password exactly when the local document has an
\* i-th credential with the remote server and a stored password that is not
\* empty, whose password it is.
C20_SecretRecovery ==
    (stage \in {"readOnce", "readTwice"} /\ ~read1.panic) =>
        /\ \A i \in 1..Len(read1.container) :
              HasKey(read1.container[i], "volume") =>
                 \A j \in 1..Len(read1.container[i]["volume"]) :
                    LET v == read1.container[i]["volume"][j]
                        ms == PriorVolumesNamed(read1.container[i]["name"], v["name"])
                    IN  /\ HasKey(v, "storage_account_key") <=> ms # {}
                        /\ HasKey(v, "storage_account_key") =>
                              \E m \in ms :
                                 v["storage_account_key"] =
                                    prior.container[m[1]].volume[m[2]].storage_account_key
        /\ \A i \in 1..Len(read1.image_registry_credential) :
              LET c == read1.image_registry_credential[i]
                  old == prior.image_registry_credential
                  recovered == /\ i <= Len(old)
                               /\ HasKey(c, "server")
                               /\ old[i].server = c["server"]
                               /\ old[i].password # ""
              IN  /\ HasKey(c, "password") <=> recovered
                  /\ HasKey(c, "password") => c["password"] = old[i].password

\* a Read that recovers one storage_account_key and one password and leaves
\* another volume and another credential without
C20_Witness ==
    /\ stage = "readOnce" /\ ~read1.panic
    /\ \E i \in 1..Len(read1.container) :
          /\ HasKey(read1.container[i], "volume")
          /\ \E j, k \in 1..Len(read1.container[i]["volume"]) :
                /\ HasKey(read1.container[i]["volume"][j], "storage_account_key")
                /\ ~HasKey(read1.container[i]["volume"][k], "storage_account_key")
    /\ \E i, k \in 1..Len(read1.image_registry_credential) :
          /\ HasKey(read1.image_registry_credential[i], "password")
          /\ ~HasKey(read1.image_registry_credential[k], "password")
          /\ k <= Len(prior.image_registry_credential)

=============================================================================
